---- MODULE Spec2Model ----
(***************************************************************************)
(* Model of the simulator's "run" command (x/programs/cmd/simulator/cmd/   *)
(* plan.go): one invocation of runCmd.Run loads a step, verifies it,       *)
(* resolves its parameters, dispatches it and records the result.          *)
(* Byte strings are sequences of byte values (ASCII codes for text).       *)
(***************************************************************************)
EXTENDS Integers, Sequences, FiniteSets, TLC

\* ------------------------------------------------------------------ bounds
MaxSteps == 3      \* invocations of Run that reach the end of RunStep
MaxParams == 2     \* parameters of one step
MaxResp == 2       \* result payloads the interpreter may return

\* ------------------------------------------------------- program constants
IDLen == 32        \* ids.ID is 32 bytes
AddressLen == 33   \* codec.AddressLen

\* ------------------------------------------------------------ byte strings
StepPrefix == <<115, 116, 101, 112, 95>>      \* "step_"

Fill(n, b) == [i \in 1..n |-> b]

IsDigit(b) == b \in 48..57

\* decimal text of a natural number, as strconv/fmt would print it
RECURSIVE Itoa(_)
Itoa(n) == IF n < 10 THEN <<48 + n>> ELSE Itoa(n \div 10) \o <<48 + (n % 10)>>

\* strings.CutPrefix(s, prefix)
CutPrefix(s, prefix) ==
    IF Len(s) >= Len(prefix) /\ SubSeq(s, 1, Len(prefix)) = prefix
    THEN [after |-> SubSeq(s, Len(prefix) + 1, Len(s)), found |-> TRUE]
    ELSE [after |-> s, found |-> FALSE]

RECURSIVE DigitsValue(_, _)
DigitsValue(s, acc) ==
    IF s = <<>> THEN acc ELSE DigitsValue(Tail(s), acc * 10 + (Head(s) - 48))

\* digits of the largest magnitudes a signed 32-bit integer holds
MaxInt32Digits == <<50, 49, 52, 55, 52, 56, 51, 54, 52, 55>>   \* 2147483647
MinInt32Digits == <<50, 49, 52, 55, 52, 56, 51, 54, 52, 56>>   \* 2147483648

RECURSIVE StripZeros(_)
StripZeros(d) == IF Len(d) > 1 /\ Head(d) = 48 THEN StripZeros(Tail(d)) ELSE d

\* a > b for digit strings without leading zeros
RECURSIVE DigitsGreater(_, _)
DigitsGreater(a, b) ==
    IF Len(a) # Len(b) THEN Len(a) > Len(b)
    ELSE IF a = <<>> THEN FALSE
    ELSE IF Head(a) # Head(b) THEN Head(a) > Head(b)
    ELSE DigitsGreater(Tail(a), Tail(b))

\* strconv.ParseInt(s, 10, 32): optional sign, then one or more decimal
\* digits; a value outside the signed 32-bit range is an error.
ParseInt(s) ==
    LET signed == s # <<>> /\ Head(s) \in {43, 45}
        digits == IF signed THEN Tail(s) ELSE s
        neg    == signed /\ Head(s) = 45
    IN IF digits = <<>> \/ \E i \in 1..Len(digits) : ~IsDigit(digits[i])
       THEN [ok |-> FALSE, val |-> 0]
       ELSE IF DigitsGreater(StripZeros(digits),
                             IF neg THEN MinInt32Digits ELSE MaxInt32Digits)
       THEN [ok |-> FALSE, val |-> 0]
       ELSE [ok |-> TRUE,
             val |-> IF neg THEN 0 - DigitsValue(StripZeros(digits), 0)
                     ELSE DigitsValue(StripZeros(digits), 0)]

\* ids.ToID(bytes): succeeds exactly on IDLen bytes and keeps them
ToID(bytes) ==
    IF Len(bytes) = IDLen THEN [ok |-> TRUE, id |-> bytes]
    ELSE [ok |-> FALSE, id |-> Fill(IDLen, 0)]

\* ids.ID.String(): a textual encoding of the identifier (tag byte 'I')
IDString(id) == <<73>> \o id

\* ids.FromString(text): the inverse of IDString, an error on anything else
IDFromString(text) ==
    IF Len(text) = IDLen + 1 /\ Head(text) = 73
    THEN [ok |-> TRUE, id |-> Tail(text)]
    ELSE [ok |-> FALSE, id |-> Fill(IDLen, 0)]

\* utils.Address(publicKey): the textual address of a public key (tag 'A')
Address(pk) == <<65>> \o pk

\* --------------------------------------------------------------- step model
EndpointKey == "key"
EndpointExecute == "execute"
EndpointReadOnly == "readonly"
ProgramCreate == "program_create"

String == "string"
ID == "id"
KeyEd25519 == "ed25519"
KeySecp256k1 == "secp256k1"
Uint64 == "u64"
Bool == "bool"

Endpoints == {EndpointKey, EndpointExecute, EndpointReadOnly, "bogus"}
Methods == {ProgramCreate, "call"}
UnitsSet == {0, 7}

Param(t, v) == [type |-> t, value |-> v]

StepRef(n) == StepPrefix \o Itoa(n)

NameA == <<97>>                 \* "a": a key name; no file of that name
PathMod == <<109>>              \* "m": a file that exists
PathNone == <<110>>             \* "n": no such file
RawID == Fill(IDLen, 1)         \* a literal identifier
Files == {PathMod}              \* the paths os.Stat finds

\* first parameters a plan may carry
FirstParams ==
    {Param(KeyEd25519, NameA), Param(KeySecp256k1, NameA),
     Param(String, PathMod), Param(String, PathNone), Param(String, StepRef(0)),
     Param(ID, RawID), Param(String, RawID), Param(ID, PathMod),
     Param(ID, StepPrefix \o <<120>>),            \* "step_x"
     Param(ID, StepPrefix \o <<43, 49>>),         \* "step_+1"
     Param(ID, StepPrefix \o MinInt32Digits),     \* "step_2147483648"
     Param(Uint64, <<100>>), Param(Bool, <<1>>)}
    \cup {Param(ID, StepRef(n)) : n \in 0..MaxSteps}

\* parameters after the first
RestParams ==
    {Param(Uint64, <<100>>), Param(KeyEd25519, NameA), Param("bogus", <<1>>),
     Param(ID, StepRef(0))}

RECURSIVE ParamLists(_)
ParamLists(n) ==
    IF n = 0 THEN {<<>>}
    ELSE IF n = 1 THEN {<<p>> : p \in FirstParams}
    ELSE {Append(ps, p) : ps \in ParamLists(n - 1), p \in RestParams}

NilStep ==
    [isNil |-> TRUE, endpoint |-> "", method |-> "", maxUnits |-> 0,
     params |-> <<>>, paramsNil |-> TRUE]

MkStep(e, m, u, ps, nilParams) ==
    [isNil |-> FALSE, endpoint |-> e, method |-> m, maxUnits |-> u,
     params |-> ps, paramsNil |-> nilParams]

\* the steps a plan text can describe: params absent (nil), or a list of
\* 0..MaxParams parameters
Steps ==
    {MkStep(e, m, u, <<>>, TRUE) : e \in Endpoints, m \in Methods, u \in UnitsSet}
    \cup UNION {{MkStep(e, m, u, ps, FALSE) :
                    e \in Endpoints, m \in Methods, u \in UnitsSet, ps \in ParamLists(n)}
                : n \in 0..MaxParams}

\* ------------------------------------------------------------------- errors
NoError == {}
ErrInvalidPlan == "ErrInvalidPlan"
ErrInvalidStep == "ErrInvalidStep"
ErrInvalidEndpoint == "ErrInvalidEndpoint"
ErrInvalidParamType == "ErrInvalidParamType"
ErrFirstParamRequiredID == "ErrFirstParamRequiredID"
ErrFirstParamRequiredString == "ErrFirstParamRequiredString"
ErrNamedKeyNotFound == "ErrNamedKeyNotFound"
ErrDuplicateKeyName == "ErrDuplicateKeyName"
ErrNoPlanSource == "please specify either a --plan or a --file flag"
ErrFailedToMap == "failed to map to id"
ErrPathNotExists == "this path does not exists"
ErrMultiResponse == "multi response not supported"
ErrParseInt == "strconv.ParseInt"
ErrReadFile == "os.ReadFile"
ErrUnmarshal == "unmarshalStep"
ErrToID == "ids.ToID"
ErrStore == "store"
ErrLoader == "loader"
ErrInterpreter == "interpreter"

\* -------------------------------------------------------------------- Init
\* What the command line gives to Init: the --step text and the --file path.
\* A text is what unmarshalStep makes of it: an error, or a step (possibly nil).
BadText == [parses |-> FALSE, step |-> NilStep]
Text(s) == [parses |-> TRUE, step |-> s]
Texts == {BadText, Text(NilStep)} \cup {Text(s) : s \in Steps}
NoText == [given |-> FALSE, text |-> BadText]
NoFile == [given |-> FALSE, readable |-> FALSE, text |-> BadText]
MissingFile == [given |-> TRUE, readable |-> FALSE, text |-> BadText]

FileTexts == {BadText, Text(MkStep(EndpointKey, "call", 7, <<Param(KeyEd25519, NameA)>>, FALSE))}

Inputs ==
    {[planStep |-> NoText, file |-> NoFile], [planStep |-> NoText, file |-> MissingFile]}
    \cup {[planStep |-> [given |-> TRUE, text |-> t], file |-> NoFile] : t \in Texts}
    \cup {[planStep |-> NoText, file |-> [given |-> TRUE, readable |-> TRUE, text |-> t]]
            : t \in FileTexts}

unmarshalStep(text) ==
    IF text.parses THEN [step |-> text.step, err |-> NoError]
    ELSE [step |-> NilStep, err |-> {ErrUnmarshal}]

\* runCmd.Init: the step to run, or the error; "set" tells whether c.step was
\* assigned
InitStep(in) ==
    IF in.planStep.given
    THEN [set |-> TRUE] @@ unmarshalStep(in.planStep.text)
    ELSE IF in.file.given
    THEN IF in.file.readable
         THEN [set |-> TRUE] @@ unmarshalStep(in.file.text)
         ELSE [set |-> FALSE, step |-> NilStep, err |-> {ErrReadFile}]
    ELSE [set |-> FALSE, step |-> NilStep, err |-> {ErrNoPlanSource}]

\* ------------------------------------------------------------------ Verify
Panic == {"panic"}

\* verifyEndpoint asking an identifier of every Execute step
verifyEndpoint_CreateWantsID(i, step) ==
    IF Len(step.params) = 0 THEN Panic
    ELSE LET firstParamType == step.params[1].type IN
      CASE step.endpoint = EndpointKey ->
             IF firstParamType # KeyEd25519 /\ firstParamType # KeySecp256k1
             THEN {ErrInvalidStep, ErrInvalidParamType} ELSE NoError
        [] step.endpoint = EndpointReadOnly ->
             IF firstParamType # ID
             THEN {ErrInvalidStep, ErrInvalidParamType, ErrFirstParamRequiredID}
             ELSE NoError
        [] step.endpoint = EndpointExecute ->
             IF firstParamType # ID
             THEN {ErrInvalidStep, ErrInvalidParamType, ErrFirstParamRequiredID}
             ELSE NoError
        [] OTHER -> {ErrInvalidEndpoint}

\* verifyEndpoint(i, step): the error, NoError, or Panic when Params[0] is
\* read from an empty list
verifyEndpoint(i, step) ==
    IF Len(step.params) = 0 THEN Panic
    ELSE LET firstParamType == step.params[1].type IN
      CASE step.endpoint = EndpointKey ->
             IF firstParamType # KeyEd25519 /\ firstParamType # KeySecp256k1
             THEN {ErrInvalidStep, ErrInvalidParamType} ELSE NoError
        [] step.endpoint = EndpointReadOnly ->
             IF firstParamType # ID
             THEN {ErrInvalidStep, ErrInvalidParamType, ErrFirstParamRequiredID}
             ELSE NoError
        [] step.endpoint = EndpointExecute ->
             IF step.method = ProgramCreate
             THEN IF firstParamType # String
                  THEN {ErrInvalidStep, ErrInvalidParamType, ErrFirstParamRequiredString}
                  ELSE NoError
             ELSE IF firstParamType # ID
                  THEN {ErrInvalidStep, ErrInvalidParamType, ErrFirstParamRequiredID}
                  ELSE NoError
        [] OTHER -> {ErrInvalidEndpoint}

\* runCmd.Verify
Verify(lastStep, step) ==
    IF step.isNil THEN {ErrInvalidPlan}
    ELSE IF step.paramsNil THEN {ErrInvalidStep}
    ELSE verifyEndpoint(lastStep, step)

\* ---------------------------------------------------------------- Response
NewResponse(i) ==
    [index |-> i, msg |-> <<>>, txID |-> <<>>, response |-> <<>>,
     balance |-> <<>>, err |-> NoError, stamped |-> FALSE]

setMsg(resp, m) == [resp EXCEPT !.msg = <<m>>]
setTxID(resp, t) == [resp EXCEPT !.txID = <<t>>]
setResponse(resp, r) == [resp EXCEPT !.response = <<r>>]
setBalance(resp, b) == [resp EXCEPT !.balance = <<b>>]
setError(resp, e) == [resp EXCEPT !.err = e]
setTimestamp(resp) == [resp EXCEPT !.stamped = TRUE]
getTxID(resp) ==
    IF resp.txID = <<>> THEN [txID |-> <<>>, found |-> FALSE]
    ELSE [txID |-> resp.txID[1], found |-> TRUE]

\* --------------------------------------------------- external collaborators
\* The store: named keys and created programs.
EmptyStore == [keys |-> <<>>, programs |-> {}]
HasKey(db, name) == name \in DOMAIN db.keys
SetKey(db, name, pk) == [db EXCEPT !.keys = (name :> pk) @@ @]

EmptyPublicKey == Fill(AddressLen - 1, 0)

\* The n-th value drawn from the random source: crypto/rand values do not
\* repeat, so each draw is a value not seen before.
Fresh(n) == Fill(IDLen, 10 + n)

\* storage.GetPublicKey(ctx, db, name) -> (pk, ok, err)
GetPublicKey(db, name) ==
    {[pk |-> EmptyPublicKey, ok |-> FALSE, err |-> {ErrStore}]}
    \cup {IF HasKey(db, name)
          THEN [pk |-> db.keys[name], ok |-> TRUE, err |-> NoError]
          ELSE [pk |-> EmptyPublicKey, ok |-> FALSE, err |-> NoError]}

\* keyCreateFunc(ctx, db, name) -> (publicKey, err): an existing name is
\* reported as ErrDuplicateKeyName together with the existing key
keyCreateFunc(db, drawn, name) ==
    {[key |-> EmptyPublicKey, err |-> {ErrStore}, db |-> db, drawn |-> drawn]}
    \cup {IF HasKey(db, name)
          THEN [key |-> db.keys[name], err |-> {ErrDuplicateKeyName},
                db |-> db, drawn |-> drawn]
          ELSE [key |-> Fresh(drawn), err |-> NoError,
                db |-> SetKey(db, name, Fresh(drawn)), drawn |-> drawn + 1]}

\* programCreateFunc(ctx, db, path) -> (programID, err)
programCreateFunc(db, drawn, path) ==
    {[id |-> Fill(IDLen, 0), err |-> {ErrLoader}, db |-> db, drawn |-> drawn],
     [id |-> Fresh(drawn), err |-> NoError,
      db |-> [db EXCEPT !.programs = @ \cup {Fresh(drawn)}], drawn |-> drawn + 1]}

Payloads == {<<>>, <<42>>}      \* a result payload: nil, or a value
Balances == {0, 9}
Budget(u) == [max |-> FALSE, units |-> u]
MaxUint64 == [max |-> TRUE, units |-> 0]      \* math.MaxUint64

\* programExecuteFunc(ctx, log, db, id, params, method, maxUnits)
\*   -> (callID, results, balance, err)
programExecuteFunc(db, drawn, id, params, method, maxUnits) ==
    {[id |-> Fill(IDLen, 0), response |-> <<>>, balance |-> 0,
      err |-> {ErrInterpreter}, drawn |-> drawn]}
    \cup {[id |-> Fresh(drawn), response |-> r, balance |-> b, err |-> NoError,
           drawn |-> drawn + 1]
            : r \in UNION {[1..n -> Payloads] : n \in 0..MaxResp}, b \in Balances}

\* one call to a collaborator: what it was given, the error it returned and
\* the number of result payloads it returned
Call(fn, arg, rest, method, budget, e, n) ==
    [fn |-> fn, arg |-> arg, rest |-> rest, method |-> method, budget |-> budget,
     err |-> e, results |-> n]

\* -------------------------------------------------------- createCallParams
\* the address bytes built for a stored public key: prefix byte 0, then the key
AddressBytes(pk) ==
    [i \in 1..AddressLen |-> IF i = 1 THEN 0
                             ELSE IF i - 1 <= Len(pk) THEN pk[i - 1] ELSE 0]

Resolved(p) == [ok |-> TRUE, param |-> p, err |-> NoError]
Unresolved(e) == [ok |-> FALSE, param |-> Param("", <<>>), err |-> e]

\* resolveStepRef with the looked-up identifier always typed ID
resolveStepRef_TypeLost(ledger, param, idString) ==
    LET id == ParseInt(idString) IN
    IF ~id.ok THEN Unresolved({ErrParseInt})
    ELSE IF id.val \notin DOMAIN ledger THEN Unresolved({ErrFailedToMap})
    ELSE Resolved(Param(ID, ledger[id.val]))

\* resolveStepRef passing on a reference the ledger does not hold
resolveStepRef_PassThrough(ledger, param, idString) ==
    LET id == ParseInt(idString) IN
    IF ~id.ok THEN Unresolved({ErrParseInt})
    ELSE IF id.val \notin DOMAIN ledger THEN Resolved(param)
    ELSE Resolved(Param(param.type, ledger[id.val]))

\* a String or ID parameter whose value is "step_" + idString
resolveStepRef(ledger, param, idString) ==
    LET id == ParseInt(idString) IN
    IF ~id.ok THEN Unresolved({ErrParseInt})
    ELSE IF id.val \notin DOMAIN ledger THEN Unresolved({ErrFailedToMap})
    ELSE Resolved(Param(param.type, ledger[id.val]))

\* a String or ID parameter without the "step_" prefix: an identifier, or a path
resolvePlain(param) ==
    LET programID == ToID(param.value) IN
    IF programID.ok THEN Resolved(Param(param.type, programID.id))
    ELSE IF param.value \notin Files THEN Unresolved({ErrPathNotExists})
    ELSE Resolved(param)

\* resolveKey passing the name on even when the key is stored
resolveKey_NameKept(endpoint, param, g) ==
    IF g.err # NoError THEN Unresolved(g.err)
    ELSE IF ~g.ok /\ endpoint # EndpointKey THEN Unresolved({ErrNamedKeyNotFound})
    ELSE Resolved(param)

\* resolveKey passing on the name of a key that is not stored, for any endpoint
resolveKey_MissingAllowed(endpoint, param, g) ==
    IF g.err # NoError THEN Unresolved(g.err)
    ELSE Resolved(Param(param.type, IF g.ok THEN AddressBytes(g.pk) ELSE param.value))

\* a KeyEd25519 parameter, g being what storage.GetPublicKey returned
resolveKey(endpoint, param, g) ==
    IF g.err # NoError THEN Unresolved(g.err)
    ELSE IF ~g.ok /\ endpoint # EndpointKey THEN Unresolved({ErrNamedKeyNotFound})
    ELSE Resolved(Param(param.type, IF g.ok THEN AddressBytes(g.pk) ELSE param.value))

\* resolveParam looking up a KeySecp256k1 name as it does a KeyEd25519 name
resolveParam_SecpAsKey(ledger, db, endpoint, param) ==
    CASE param.type \in {String, ID} ->
           LET cut == CutPrefix(param.value, StepPrefix) IN
           IF cut.found THEN {resolveStepRef(ledger, param, cut.after)}
           ELSE {resolvePlain(param)}
      [] param.type \in {KeyEd25519, KeySecp256k1} ->
           {resolveKey(endpoint, param, g) : g \in GetPublicKey(db, param.value)}
      [] param.type \in {Uint64, Bool} -> {Resolved(param)}
      [] OTHER -> {Unresolved({ErrInvalidParamType})}

\* one iteration of the loop of createCallParams: the possible results for param
resolveParam(ledger, db, endpoint, param) ==
    CASE param.type \in {String, ID} ->
           LET cut == CutPrefix(param.value, StepPrefix) IN
           IF cut.found THEN {resolveStepRef(ledger, param, cut.after)}
           ELSE {resolvePlain(param)}
      [] param.type = KeyEd25519 ->
           {resolveKey(endpoint, param, g) : g \in GetPublicKey(db, param.value)}
      [] param.type \in {Uint64, Bool} -> {Resolved(param)}
      [] OTHER -> {Unresolved({ErrInvalidParamType})}

\* the loop of createCallParams from parameter i on, cp being the parameters
\* resolved so far; the set of its possible results
RECURSIVE createCallParamsFrom(_, _, _, _, _, _)
createCallParamsFrom(ledger, db, params, endpoint, i, cp) ==
    IF i > Len(params) THEN {[cp |-> cp, err |-> NoError]}
    ELSE UNION {IF r.ok
                THEN createCallParamsFrom(ledger, db, params, endpoint, i + 1,
                                          Append(cp, r.param))
                ELSE {[cp |-> <<>>, err |-> r.err]}
                : r \in resolveParam(ledger, db, endpoint, params[i])}

createCallParams(ledger, db, params, endpoint) ==
    createCallParamsFrom(ledger, db, params, endpoint, 1, <<>>)

\* -------------------------------------------------------------- runStepFunc
KeyMsg(key) == <<99>> \o Address(key)   \* "created named key with address " + address

Outcome(resp, e, db, drawn, calls, panic) ==
    [resp |-> resp, err |-> e, db |-> db, drawn |-> drawn, calls |-> calls,
     panic |-> panic]

\* EndpointKey, k being what keyCreateFunc returned
keyStep(resp, keyName, k) ==
    LET calls == <<Call("keyCreate", keyName, <<>>, "", Budget(0), k.err, 0)>> IN
    IF k.err # NoError /\ ErrDuplicateKeyName \notin k.err
    THEN Outcome(setTimestamp(resp), k.err, k.db, k.drawn, calls, FALSE)
    ELSE Outcome(setTimestamp(setMsg(resp, KeyMsg(k.key))), NoError, k.db, k.drawn,
                 calls, FALSE)

\* EndpointExecute with method ProgramCreate, c being what programCreateFunc returned
createStep(resp, programPath, c) ==
    LET calls == <<Call("programCreate", programPath, <<>>, "", Budget(0), c.err, 0)>> IN
    IF c.err # NoError
    THEN Outcome(setTimestamp(resp), c.err, c.db, c.drawn, calls, FALSE)
    ELSE Outcome(setTimestamp(setTxID(resp, IDString(c.id))), NoError, c.db, c.drawn,
                 calls, FALSE)

\* executeStep filling the Response before it counts the payloads
executeStep_FillsFirst(resp, db, calls, x) ==
    IF x.err # NoError THEN Outcome(setTimestamp(resp), x.err, db, x.drawn, calls, FALSE)
    ELSE IF Len(x.response) = 0
    THEN Outcome(resp, NoError, db, x.drawn, calls, TRUE)
    ELSE LET res == x.response[1]
             r1 == IF res # <<>> THEN setResponse(resp, res[1]) ELSE resp
             r2 == setBalance(setTxID(r1, IDString(x.id)), x.balance)
         IN IF Len(x.response) > 1
            THEN Outcome(setTimestamp(r2), {ErrMultiResponse}, db, x.drawn, calls, FALSE)
            ELSE Outcome(setTimestamp(r2), NoError, db, x.drawn, calls, FALSE)

\* EndpointExecute with another method, x being what programExecuteFunc returned
executeStep(resp, db, calls, x) ==
    IF x.err # NoError THEN Outcome(setTimestamp(resp), x.err, db, x.drawn, calls, FALSE)
    ELSE IF Len(x.response) > 1
    THEN Outcome(setTimestamp(resp), {ErrMultiResponse}, db, x.drawn, calls, FALSE)
    ELSE IF Len(x.response) = 0
    THEN Outcome(resp, NoError, db, x.drawn, calls, TRUE)    \* response[0]: index out of range
    ELSE LET res == x.response[1]
             r1 == IF res # <<>> THEN setResponse(resp, res[1]) ELSE resp
         IN Outcome(setTimestamp(setBalance(setTxID(r1, IDString(x.id)), x.balance)),
                    NoError, db, x.drawn, calls, FALSE)

\* readOnlyStep reporting the call's identifier as executeStep does
readOnlyStep_SetsTxID(resp, db, calls, x) ==
    IF x.err # NoError THEN Outcome(setTimestamp(resp), x.err, db, x.drawn, calls, FALSE)
    ELSE IF Len(x.response) > 1
    THEN Outcome(setTimestamp(resp), {ErrMultiResponse}, db, x.drawn, calls, FALSE)
    ELSE IF Len(x.response) = 0
    THEN Outcome(resp, NoError, db, x.drawn, calls, TRUE)
    ELSE LET res == x.response[1]
             r1 == IF res # <<>> THEN setResponse(resp, res[1]) ELSE resp
         IN Outcome(setTimestamp(setTxID(r1, IDString(x.id))), NoError, db, x.drawn,
                    calls, FALSE)

\* readOnlyStep accepting two payloads
readOnlyStep_AllowsTwo(resp, db, calls, x) ==
    IF x.err # NoError THEN Outcome(setTimestamp(resp), x.err, db, x.drawn, calls, FALSE)
    ELSE IF Len(x.response) > 2
    THEN Outcome(setTimestamp(resp), {ErrMultiResponse}, db, x.drawn, calls, FALSE)
    ELSE IF Len(x.response) = 0
    THEN Outcome(resp, NoError, db, x.drawn, calls, TRUE)
    ELSE LET res == x.response[1]
             r1 == IF res # <<>> THEN setResponse(resp, res[1]) ELSE resp
         IN Outcome(setTimestamp(r1), NoError, db, x.drawn, calls, FALSE)

\* readOnlyStep reporting the balance as executeStep does
readOnlyStep_SetsBalance(resp, db, calls, x) ==
    IF x.err # NoError THEN Outcome(setTimestamp(resp), x.err, db, x.drawn, calls, FALSE)
    ELSE IF Len(x.response) > 1
    THEN Outcome(setTimestamp(resp), {ErrMultiResponse}, db, x.drawn, calls, FALSE)
    ELSE IF Len(x.response) = 0
    THEN Outcome(resp, NoError, db, x.drawn, calls, TRUE)
    ELSE LET res == x.response[1]
             r1 == IF res # <<>> THEN setResponse(resp, res[1]) ELSE resp
         IN Outcome(setTimestamp(setBalance(r1, x.balance)), NoError, db, x.drawn,
                    calls, FALSE)

\* EndpointReadOnly, x being what programExecuteFunc returned
readOnlyStep(resp, db, calls, x) ==
    IF x.err # NoError THEN Outcome(setTimestamp(resp), x.err, db, x.drawn, calls, FALSE)
    ELSE IF Len(x.response) > 1
    THEN Outcome(setTimestamp(resp), {ErrMultiResponse}, db, x.drawn, calls, FALSE)
    ELSE IF Len(x.response) = 0
    THEN Outcome(resp, NoError, db, x.drawn, calls, TRUE)    \* response[0]: index out of range
    ELSE LET res == x.response[1]
             r1 == IF res # <<>> THEN setResponse(resp, res[1]) ELSE resp
         IN Outcome(setTimestamp(r1), NoError, db, x.drawn, calls, FALSE)

\* runStepFunc(ctx, log, db, endpoint, maxUnits, method, params, resp): the
\* set of its possible results
runStepFunc(db, drawn, endpoint, maxUnits, method, params, resp) ==
    CASE endpoint = EndpointKey ->
           {keyStep(resp, params[1].value, k)
              : k \in keyCreateFunc(db, drawn, params[1].value)}
      [] endpoint = EndpointExecute ->
           IF method = ProgramCreate
           THEN {createStep(resp, params[1].value, c)
                   : c \in programCreateFunc(db, drawn, params[1].value)}
           ELSE LET id == ToID(params[1].value) IN
                IF ~id.ok
                THEN {Outcome(setTimestamp(resp), {ErrToID}, db, drawn, <<>>, FALSE)}
                ELSE {executeStep(resp, db,
                                  <<Call("programExecute", id.id, Tail(params), method,
                                         Budget(maxUnits), x.err, Len(x.response))>>, x)
                        : x \in programExecuteFunc(db, drawn, id.id, Tail(params),
                                                   method, Budget(maxUnits))}
      [] endpoint = EndpointReadOnly ->
           LET id == ToID(params[1].value) IN
           IF ~id.ok
           THEN {Outcome(setTimestamp(resp), {ErrToID}, db, drawn, <<>>, FALSE)}
           ELSE {readOnlyStep(resp, db,
                              <<Call("programExecute", id.id, Tail(params), method,
                                     MaxUint64, x.err, Len(x.response))>>, x)
                   : x \in programExecuteFunc(db, drawn, id.id, Tail(params),
                                              method, MaxUint64)}
      [] OTHER ->
           {Outcome(setTimestamp(resp), {ErrInvalidEndpoint}, db, drawn, <<>>, FALSE)}

\* ------------------------------------------------------------------ RunStep
Result(kind, st, cps, resp, e, ledger, last, db, drawn, calls) ==
    [outcome |-> kind, step |-> st, callParams |-> cps, resp |-> resp, err |-> e,
     programIDStrMap |-> ledger, lastStep |-> last, db |-> db, drawn |-> drawn,
     calls |-> calls]

\* RecordStep returning before the counter when the step failed
RecordStep_StopsOnError(index, ledger, st, cps, o) ==
    LET resp == IF o.err # NoError THEN setError(o.resp, o.err) ELSE o.resp
        tx == getTxID(resp)
        id == IDFromString(tx.txID)
    IN IF o.panic
       THEN Result("dispatchPanic", st, cps, NewResponse(0), Panic, ledger, index,
                   o.db, o.drawn, o.calls)
       ELSE IF o.err # NoError
       THEN Result("done", st, cps, resp, NoError, ledger, index, o.db, o.drawn, o.calls)
       ELSE Result("done", st, cps, resp, NoError,
                   IF tx.found THEN (index :> id.id) @@ ledger ELSE ledger,
                   index + 1, o.db, o.drawn, o.calls)

\* RecordStep writing every identifier at index 0
RecordStep_AtZero(index, ledger, st, cps, o) ==
    LET resp == IF o.err # NoError THEN setError(o.resp, o.err) ELSE o.resp
        tx == getTxID(resp)
        id == IDFromString(tx.txID)
    IN IF o.panic
       THEN Result("dispatchPanic", st, cps, NewResponse(0), Panic, ledger, index,
                   o.db, o.drawn, o.calls)
       ELSE Result("done", st, cps, resp, NoError,
                   IF tx.found THEN (0 :> id.id) @@ ledger ELSE ledger,
                   index + 1, o.db, o.drawn, o.calls)

\* RecordStep writing the identifier one index ahead of the counter
RecordStep_Ahead(index, ledger, st, cps, o) ==
    LET resp == IF o.err # NoError THEN setError(o.resp, o.err) ELSE o.resp
        tx == getTxID(resp)
        id == IDFromString(tx.txID)
    IN IF o.panic
       THEN Result("dispatchPanic", st, cps, NewResponse(0), Panic, ledger, index,
                   o.db, o.drawn, o.calls)
       ELSE IF tx.found /\ ~id.ok
       THEN Result("runErr", st, cps, NewResponse(0), {"ids.FromString"}, ledger, index,
                   o.db, o.drawn, o.calls)
       ELSE Result("done", st, cps, resp, NoError,
                   IF tx.found THEN ((index + 1) :> id.id) @@ ledger ELSE ledger,
                   index + 1, o.db, o.drawn, o.calls)

\* the end of RunStep, after runStepFunc gave o
RecordStep(index, ledger, st, cps, o) ==
    LET resp == IF o.err # NoError THEN setError(o.resp, o.err) ELSE o.resp
        tx == getTxID(resp)
        id == IDFromString(tx.txID)
    IN IF o.panic
       THEN Result("dispatchPanic", st, cps, NewResponse(0), Panic, ledger, index,
                   o.db, o.drawn, o.calls)
       ELSE IF tx.found /\ ~id.ok
       THEN Result("runErr", st, cps, NewResponse(0), {"ids.FromString"}, ledger, index,
                   o.db, o.drawn, o.calls)
       ELSE Result("done", st, cps, resp, NoError,
                   IF tx.found THEN (index :> id.id) @@ ledger ELSE ledger,
                   index + 1, o.db, o.drawn, o.calls)

\* RunStep advancing the counter when createCallParams fails
RunStep_CountsUnresolved(index, ledger, db, drawn, st) ==
    UNION {IF r.err # NoError
           THEN {Result("resolveErr", st, <<>>, NewResponse(0), r.err, ledger, index + 1,
                        db, drawn, <<>>)}
           ELSE {RecordStep(index, ledger, st, r.cp, o)
                    : o \in runStepFunc(db, drawn, st.endpoint, st.maxUnits, st.method,
                                        r.cp, NewResponse(index))}
           : r \in createCallParams(ledger, db, st.params, st.endpoint)}

\* RunStep returning the Response of the step's index when createCallParams fails
RunStep_IndexOnError(index, ledger, db, drawn, st) ==
    UNION {IF r.err # NoError
           THEN {Result("resolveErr", st, <<>>, NewResponse(index), r.err, ledger, index,
                        db, drawn, <<>>)}
           ELSE {RecordStep(index, ledger, st, r.cp, o)
                    : o \in runStepFunc(db, drawn, st.endpoint, st.maxUnits, st.method,
                                        r.cp, NewResponse(index))}
           : r \in createCallParams(ledger, db, st.params, st.endpoint)}

\* runCmd.RunStep for the verified step st: the set of its possible results
RunStep(index, ledger, db, drawn, st) ==
    UNION {IF r.err # NoError
           THEN {Result("resolveErr", st, <<>>, NewResponse(0), r.err, ledger, index,
                        db, drawn, <<>>)}
           ELSE {RecordStep(index, ledger, st, r.cp, o)
                    : o \in runStepFunc(db, drawn, st.endpoint, st.maxUnits, st.method,
                                        r.cp, NewResponse(index))}
           : r \in createCallParams(ledger, db, st.params, st.endpoint)}

\* runCmd.Run on input in, from the state (index, ledger, db, drawn) with
\* c.step = old: the set of its possible results
Run(index, ledger, db, drawn, old, in) ==
    LET i == InitStep(in)
        st == IF i.set THEN i.step ELSE old
        v == Verify(index, st)
    IN IF i.err # NoError
       THEN {Result("initErr", st, <<>>, NewResponse(0), i.err, ledger, index, db, drawn, <<>>)}
       ELSE IF v = Panic
       THEN {Result("verifyPanic", st, <<>>, NewResponse(0), Panic, ledger, index, db, drawn, <<>>)}
       ELSE IF v # NoError
       THEN {Result("verifyErr", st, <<>>, NewResponse(0), v, ledger, index, db, drawn, <<>>)}
       ELSE RunStep(index, ledger, db, drawn, st)

\* ------------------------------------------------------------ state machine
VARIABLES
    lastStep,          \* *c.lastStep: the step counter
    programIDStrMap,   \* the run ledger: step index -> program ID
    db,                \* the shared store
    drawn,             \* number of values drawn from the random source
    step,              \* c.step
    pc,                \* "idle", "called" (one step in flight), "returned", "crashed"
    input,             \* the flags of the invocation in flight
    outcome,           \* how the last invocation ended
    callParams,        \* the parameters createCallParams resolved
    resp,              \* the Response Run returned
    err,               \* the error Run returned
    calls,             \* calls made to keyCreate / programCreate / programExecute
    before,            \* counter, ledger and store when the invocation began
    keyRuns,           \* key name -> what the last Key step that succeeded for it
                       \* asked the key store for, and the message it returned
    ran                \* number of earlier invocations that dispatched their step

vars == <<lastStep, programIDStrMap, db, drawn, step, pc, input, outcome, callParams,
          resp, err, calls, before, keyRuns, ran>>

NoInput == [planStep |-> NoText, file |-> NoFile]
Snapshot == [lastStep |-> lastStep, programIDStrMap |-> programIDStrMap, db |-> db]

Init ==
    /\ lastStep = 0
    /\ programIDStrMap = <<>>
    /\ db = EmptyStore
    /\ drawn = 0
    /\ step = NilStep
    /\ pc = "idle"
    /\ input = NoInput
    /\ outcome = "none"
    /\ callParams = <<>>
    /\ resp = NewResponse(0)
    /\ err = NoError
    /\ calls = <<>>
    /\ before = [lastStep |-> 0, programIDStrMap |-> <<>>, db |-> EmptyStore]
    /\ keyRuns = <<>>
    /\ ran = 0

\* the front end calls Run with the flags of one plan step
Invoke ==
    /\ pc = "idle"
    /\ lastStep < MaxSteps
    /\ \E in \in Inputs : input' = in
    /\ pc' = "called"
    /\ before' = Snapshot
    /\ UNCHANGED <<lastStep, programIDStrMap, db, drawn, step, outcome, callParams,
                   resp, err, calls, keyRuns, ran>>

\* Run returns (or panics) with result r
Return(r) ==
    /\ lastStep' = r.lastStep
    /\ programIDStrMap' = r.programIDStrMap
    /\ db' = r.db
    /\ drawn' = r.drawn
    /\ step' = r.step
    /\ outcome' = r.outcome
    /\ callParams' = r.callParams
    /\ resp' = r.resp
    /\ err' = r.err
    /\ calls' = r.calls
    /\ UNCHANGED <<input, before, keyRuns, ran>>

\* Run from its call to its return: Init fails
RunInitFails ==
    /\ pc = "called"
    /\ \E r \in Run(lastStep, programIDStrMap, db, drawn, step, input) :
         r.outcome = "initErr" /\ Return(r)
    /\ pc' = "returned"

\* Run from its call to its return: Verify fails
RunVerifyFails ==
    /\ pc = "called"
    /\ \E r \in Run(lastStep, programIDStrMap, db, drawn, step, input) :
         r.outcome = "verifyErr" /\ Return(r)
    /\ pc' = "returned"

\* Run panics in verifyEndpoint
RunVerifyPanics ==
    /\ pc = "called"
    /\ \E r \in Run(lastStep, programIDStrMap, db, drawn, step, input) :
         r.outcome = "verifyPanic" /\ Return(r)
    /\ pc' = "crashed"

\* Run from its call to its return: createCallParams fails
RunResolveFails ==
    /\ pc = "called"
    /\ \E r \in Run(lastStep, programIDStrMap, db, drawn, step, input) :
         r.outcome = "resolveErr" /\ Return(r)
    /\ pc' = "returned"

\* Run panics in runStepFunc
RunDispatchPanics ==
    /\ pc = "called"
    /\ \E r \in Run(lastStep, programIDStrMap, db, drawn, step, input) :
         r.outcome = "dispatchPanic" /\ Return(r)
    /\ pc' = "crashed"

\* Run from its call to its return: the step was dispatched and RunStep ended
RunStepDone ==
    /\ pc = "called"
    /\ \E r \in Run(lastStep, programIDStrMap, db, drawn, step, input) :
         r.outcome \in {"done", "runErr"} /\ Return(r)
    /\ pc' = "returned"

\* the invocation that returned was a Key step dispatched without error
KeyStepSucceeded ==
    /\ outcome = "done"
    /\ step.endpoint = EndpointKey
    /\ resp.err = NoError

\* the front end takes the Response and the error; the command is idle again.
\* c.step is dead from here on (Run reads it only after Init assigned it), so
\* it is dropped.
Respond ==
    /\ pc = "returned"
    /\ pc' = "idle"
    /\ step' = NilStep
    /\ input' = NoInput
    /\ outcome' = "none"
    /\ callParams' = <<>>
    /\ resp' = NewResponse(0)
    /\ err' = NoError
    /\ calls' = <<>>
    /\ before' = Snapshot
    /\ keyRuns' = IF KeyStepSucceeded
                  THEN (step.params[1].value :> [asked |-> calls[1].arg, msg |-> resp.msg])
                       @@ keyRuns
                  ELSE keyRuns
    /\ ran' = IF outcome \in {"done", "runErr"} THEN ran + 1 ELSE ran
    /\ UNCHANGED <<lastStep, programIDStrMap, db, drawn>>

Next ==
    \/ Invoke
    \/ RunInitFails
    \/ RunVerifyFails
    \/ RunVerifyPanics
    \/ RunResolveFails
    \/ RunDispatchPanics
    \/ RunStepDone
    \/ Respond

Spec == Init /\ [][Next]_vars

\* ------------------------------------------------------------------- claims
Returned == pc = "returned"
Ended == pc \in {"returned", "crashed"}
\* the invocation that ended got past Init and Verify, so resolution was tried
Verified == Ended /\ outcome \in {"resolveErr", "dispatchPanic", "done", "runErr"}
\* ... and past createCallParams, so runStepFunc was called
Dispatched == Ended /\ outcome \in {"dispatchPanic", "done", "runErr"}

\* C1: a Key step run again for a key name that an earlier Key step of the run
\* succeeded for (the key store itself not failing) succeeds too, asks the key
\* store for the same name and returns the same message (the same address).
C1_KeyStepTwice ==
    (/\ Returned
     /\ outcome = "done"
     /\ step.endpoint = EndpointKey
     /\ step.params[1].type = KeyEd25519
     /\ step.params[1].value \in DOMAIN keyRuns
     /\ ErrStore \notin calls[1].err)
    => LET first == keyRuns[step.params[1].value] IN
       /\ resp.err = NoError
       /\ calls[1].arg = first.asked
       /\ resp.msg = first.msg

\* C2: a step whose params are empty (absent, or a list of length zero) ends
\* in Verify with ErrInvalidStep, whatever its endpoint, with nothing resolved
\* and nothing dispatched.
C2_EmptyParamsInvalidStep ==
    (/\ Ended
     /\ outcome # "initErr"
     /\ ~step.isNil
     /\ (step.paramsNil \/ Len(step.params) = 0))
    => /\ outcome = "verifyErr"
       /\ ErrInvalidStep \in err
       /\ callParams = <<>>
       /\ calls = <<>>

\* the String and ID parameters of the step that are the text step_N for an
\* index N the ledger held when the invocation began
RefsHeld ==
    {i \in 1..Len(step.params) :
        /\ step.params[i].type \in {String, ID}
        /\ \E n \in DOMAIN before.programIDStrMap : step.params[i].value = StepRef(n)}

RefIndex(i) ==
    CHOOSE n \in DOMAIN before.programIDStrMap : step.params[i].value = StepRef(n)

\* C3: when a step's parameters were resolved, every String or ID parameter
\* step_N with a ledger entry at N became the identifier stored at N, with
\* its type kept.
C3_StepRefResolves ==
    Dispatched =>
        \A i \in RefsHeld :
            callParams[i] = Param(step.params[i].type, before.programIDStrMap[RefIndex(i)])

C3_Witness ==
    /\ Returned
    /\ outcome = "done"
    /\ \E i \in RefsHeld :
        /\ RefIndex(i) = 1
        /\ callParams[i] = Param(step.params[i].type, before.programIDStrMap[1])
        /\ callParams[i].value # step.params[i].value

\* the String and ID parameters step_N (0 <= N <= MaxSteps) of the step for
\* which the ledger held no entry at N when the invocation began
DanglingRefs ==
    {i \in 1..Len(step.params) :
        /\ step.params[i].type \in {String, ID}
        /\ \E n \in 0..MaxSteps :
             step.params[i].value = StepRef(n) /\ n \notin DOMAIN before.programIDStrMap}

\* ... and those whose N is beyond every index the ledger can hold
HugeRefs ==
    {i \in 1..Len(step.params) :
        /\ step.params[i].type \in {String, ID}
        /\ step.params[i].value = StepPrefix \o MinInt32Digits}

\* C4 as stated: a verified step with a parameter step_N, the ledger holding
\* nothing at N, fails resolution with "failed to map to id" and nothing is
\* dispatched (failures of the store itself set aside).
C4_Original ==
    (Verified /\ DanglingRefs \cup HugeRefs # {} /\ ErrStore \notin err)
    => /\ outcome = "resolveErr"
       /\ err = {ErrFailedToMap}
       /\ calls = <<>>

\* the errors the parameter j of the step can fail resolution with, alone
ErrorsOf(j) ==
    {r.err : r \in resolveParam(before.programIDStrMap, before.db, step.endpoint,
                                step.params[j])} \ {NoError}

FirstOf(S) == CHOOSE i \in S : \A j \in S : i <= j

\* C4, amended: a verified step with a parameter step_N (N a signed 32-bit
\* integer), the ledger holding nothing at N, fails resolution and nothing is
\* dispatched; the error is "failed to map to id" unless a parameter before the
\* reference fails to resolve, and then it is that parameter's error.
C4_DanglingRefFails ==
    (Verified /\ DanglingRefs # {})
    => /\ outcome = "resolveErr"
       /\ calls = <<>>
       /\ \/ err = {ErrFailedToMap}
          \/ \E j \in 1..(FirstOf(DanglingRefs) - 1) : err \in ErrorsOf(j)

\* a reference to an earlier step that left no identifier failed to map
C4_Witness ==
    /\ Returned
    /\ outcome = "resolveErr"
    /\ err = {ErrFailedToMap}
    /\ \E i \in DanglingRefs : \E n \in 0..(before.lastStep - 1) :
         step.params[i].value = StepRef(n)

\* C5: an invocation that fails in Verify or in createCallParams returns an
\* error, has called neither keyCreate nor the loader nor the interpreter, and
\* leaves the ledger, the counter and the store as they were.
C5_FailureBeforeDispatchChangesNothing ==
    (Ended /\ outcome \in {"verifyErr", "resolveErr"})
    => /\ Returned
       /\ err # NoError
       /\ calls = <<>>
       /\ Snapshot = before

\* a resolution failure after the store, the ledger and the counter had moved
C5_Witness ==
    /\ Returned
    /\ outcome = "resolveErr"
    /\ before.lastStep = 2
    /\ before.programIDStrMap # <<>>
    /\ before.db # EmptyStore
    /\ Snapshot = before

\* the dispatch of the step failed: a collaborator returned an error (other
\* than the tolerated duplicate key name), or the first parameter of an
\* Execute call or ReadOnly step is no identifier
DispatchFailed ==
    /\ Dispatched
    /\ \/ /\ calls # <<>>
          /\ calls[1].err # NoError
          /\ ErrDuplicateKeyName \notin calls[1].err
       \/ /\ \/ step.endpoint = EndpointReadOnly
             \/ step.endpoint = EndpointExecute /\ step.method # ProgramCreate
          /\ ~ToID(callParams[1].value).ok

\* C6: a step that was verified and resolved and whose dispatch fails gives a
\* Response with its error set and no error from Run; the counter grows by 1
\* and the Response carries the index the counter had.
C6_DispatchFailureIsCaptured ==
    DispatchFailed
    => /\ Returned
       /\ outcome = "done"
       /\ resp.err # NoError
       /\ err = NoError
       /\ lastStep = before.lastStep + 1
       /\ resp.index = before.lastStep

\* a failed step that followed another dispatched step
C6_Witness ==
    /\ DispatchFailed
    /\ calls = <<>>
    /\ resp.err = {ErrToID}
    /\ before.lastStep = 1
    /\ lastStep = 2

\* C7: a Response of a dispatched step with its error set has no message, no
\* identifier, no result payload and no balance.
C7_ErrorExcludesSuccessFields ==
    (Returned /\ outcome = "done" /\ resp.err # NoError)
    => /\ resp.msg = <<>>
       /\ resp.txID = <<>>
       /\ resp.response = <<>>
       /\ resp.balance = <<>>

\* an Execute call failed after the interpreter had returned payloads
C7_Witness ==
    /\ Returned
    /\ outcome = "done"
    /\ step.endpoint = EndpointExecute
    /\ resp.err = {ErrMultiResponse}
    /\ resp.txID = <<>>

\* the indexes the invocation added to the ledger
Added == DOMAIN programIDStrMap \ DOMAIN before.programIDStrMap

\* C8: an invocation adds a ledger entry only at the index the counter had,
\* and only when it is an Execute step whose dispatch succeeded.
C8_EntryOnlyForExecuteSuccess ==
    Ended =>
        \A n \in Added :
            /\ n = before.lastStep
            /\ outcome = "done"
            /\ step.endpoint = EndpointExecute
            /\ resp.err = NoError

\* a program call (not a creation) added its identifier at the second index
C8_Witness ==
    /\ Returned
    /\ Added = {1}
    /\ step.endpoint = EndpointExecute
    /\ step.method # ProgramCreate

\* C9: an identifier the ledger holds at an index stays there, unchanged, in
\* every later state.
C9_EntriesStay ==
    [][\A n \in DOMAIN programIDStrMap :
          n \in DOMAIN programIDStrMap' /\ programIDStrMap'[n] = programIDStrMap[n]]_vars

\* a later step added an entry while the ledger already held one at index 0
C9_Witness ==
    /\ Returned
    /\ outcome = "done"
    /\ 0 \in DOMAIN before.programIDStrMap
    /\ Added # {}
    /\ programIDStrMap[0] = before.programIDStrMap[0]

\* the interpreter was called and returned more than one payload, without error
MultiResponse ==
    /\ Dispatched
    /\ calls # <<>>
    /\ calls[1].fn = "programExecute"
    /\ calls[1].err = NoError
    /\ calls[1].results > 1

\* C10: when the interpreter returns more than one payload, for an Execute
\* call and for a ReadOnly step, the Response carries "multi response not
\* supported" and no result, identifier or balance, and the ledger gets no
\* entry.
C10_MultiResponseFails ==
    MultiResponse
    => /\ Returned
       /\ outcome = "done"
       /\ resp.err = {ErrMultiResponse}
       /\ resp.response = <<>>
       /\ resp.txID = <<>>
       /\ resp.balance = <<>>
       /\ programIDStrMap = before.programIDStrMap

C10_Witness ==
    /\ MultiResponse
    /\ step.endpoint = EndpointReadOnly
    /\ resp.err = {ErrMultiResponse}
    /\ lastStep = before.lastStep + 1

\* C11: a ReadOnly step calls the interpreter with math.MaxUint64 as budget,
\* whatever its maxUnits, and the Response of a ReadOnly step that succeeded
\* has no balance.
C11_ReadOnlyUnlimited ==
    (Dispatched /\ step.endpoint = EndpointReadOnly)
    => /\ ToID(callParams[1].value).ok => Len(calls) = 1
       /\ \A k \in 1..Len(calls) :
            /\ calls[k].fn = "programExecute"
            /\ calls[k].budget.max
            /\ calls[k].budget # Budget(step.maxUnits)
       /\ (Returned /\ resp.err = NoError) => resp.balance = <<>>

\* a ReadOnly step with maxUnits 7 succeeded and returned a payload
C11_Witness ==
    /\ Returned
    /\ outcome = "done"
    /\ step.endpoint = EndpointReadOnly
    /\ step.maxUnits = 7
    /\ calls # <<>>
    /\ calls[1].budget = MaxUint64
    /\ resp.err = NoError
    /\ resp.response # <<>>
    /\ resp.balance = <<>>

\* the step of the invocation was loaded and has at least one parameter
LoadedWithParams ==
    /\ Ended
    /\ outcome # "initErr"
    /\ ~step.isNil
    /\ ~step.paramsNil
    /\ Len(step.params) >= 1

\* the table of accepted endpoint / method / first parameter type
Acceptable ==
    LET t == step.params[1].type IN
    \/ step.endpoint = EndpointKey /\ t \in {KeyEd25519, KeySecp256k1}
    \/ step.endpoint = EndpointReadOnly /\ t = ID
    \/ step.endpoint = EndpointExecute /\ step.method = ProgramCreate /\ t = String
    \/ step.endpoint = EndpointExecute /\ step.method # ProgramCreate /\ t = ID

\* the error a step outside the table is rejected with
RejectedWith ==
    CASE step.endpoint = EndpointKey -> {ErrInvalidParamType}
      [] step.endpoint = EndpointReadOnly -> {ErrInvalidParamType, ErrFirstParamRequiredID}
      [] step.endpoint = EndpointExecute /\ step.method = ProgramCreate ->
           {ErrInvalidParamType, ErrFirstParamRequiredString}
      [] step.endpoint = EndpointExecute -> {ErrInvalidParamType, ErrFirstParamRequiredID}
      [] OTHER -> {ErrInvalidEndpoint}

\* C12: a step with at least one parameter passes Verify exactly when its
\* endpoint, method and first parameter type are in the table; any other is
\* rejected with the error of its row (ErrInvalidEndpoint outside the three
\* endpoints), nothing is dispatched and the counter stays.
C12_VerifyTable ==
    LoadedWithParams
    => /\ Acceptable <=> Verified
       /\ ~Acceptable =>
            /\ Returned
            /\ outcome = "verifyErr"
            /\ RejectedWith \subseteq err
            /\ (step.endpoint \in {EndpointKey, EndpointReadOnly, EndpointExecute}
                    => ErrInvalidEndpoint \notin err)
            /\ (ErrFirstParamRequiredString \in err
                    => step.endpoint = EndpointExecute /\ step.method = ProgramCreate)
            /\ calls = <<>>
            /\ callParams = <<>>
            /\ lastStep = before.lastStep

\* a program creation with an ID first parameter was rejected after a step ran
C12_Witness ==
    /\ LoadedWithParams
    /\ step.endpoint = EndpointExecute
    /\ step.method = ProgramCreate
    /\ step.params[1].type = ID
    /\ outcome = "verifyErr"
    /\ ErrFirstParamRequiredString \in err
    /\ lastStep = 1

\* C13: the counter an invocation starts with is the number of steps
\* dispatched before it (Key steps, ReadOnly steps and failed steps counted),
\* and an identifier the invocation records is recorded at that number.
C13_IndexCountsDispatched ==
    /\ before.lastStep = ran
    /\ Ended => \A n \in Added : n = ran

\* the plan [Key, Execute program create, Execute call step_1] at its third
\* step: the created program is at index 1, nothing at 0, and the interpreter
\* is asked for that program
C13_Witness ==
    /\ Returned
    /\ outcome = "done"
    /\ ran = 2
    /\ DOMAIN before.programIDStrMap = {1}
    /\ before.programIDStrMap[1] \in before.db.programs
    /\ DOMAIN before.db.keys # {}
    /\ step.endpoint = EndpointExecute
    /\ step.method # ProgramCreate
    /\ step.params[1] = Param(ID, StepRef(1))
    /\ callParams[1] = Param(ID, before.programIDStrMap[1])
    /\ calls[1].fn = "programExecute"
    /\ calls[1].arg = before.programIDStrMap[1]

\* the KeyEd25519 parameters of the step that name a key an earlier Key step
\* of the run succeeded for
KeysCreated ==
    {i \in 1..Len(step.params) :
        /\ step.params[i].type = KeyEd25519
        /\ step.params[i].value \in DOMAIN keyRuns}

\* C14: an Execute or ReadOnly step with a KeyEd25519 parameter naming a key
\* that an earlier Key step succeeded for does not fail with
\* ErrNamedKeyNotFound, and when its parameters resolve that parameter is the
\* address of the stored key: byte 0, then the public key.
C14_CreatedKeyVisible ==
    (Verified /\ step.endpoint \in {EndpointExecute, EndpointReadOnly})
    => \A i \in KeysCreated :
         /\ ErrNamedKeyNotFound \notin err
         /\ step.params[i].value \in DOMAIN before.db.keys
         /\ Dispatched =>
              /\ callParams[i].type = KeyEd25519
              /\ Len(callParams[i].value) = AddressLen
              /\ callParams[i].value = <<0>> \o before.db.keys[step.params[i].value]

\* a program call was handed the address of a key created two steps earlier
C14_Witness ==
    /\ Returned
    /\ outcome = "done"
    /\ step.endpoint = EndpointExecute
    /\ step.method # ProgramCreate
    /\ Len(step.params) = 2
    /\ 2 \in KeysCreated
    /\ before.lastStep = 2
    /\ calls # <<>>
    /\ calls[1].rest[1].value = <<0>> \o before.db.keys[NameA]
    /\ resp.err = NoError

\* the KeyEd25519 parameters of the step whose name had no stored key when
\* the invocation began
KeysMissing ==
    {i \in 1..Len(step.params) :
        /\ step.params[i].type = KeyEd25519
        /\ ~HasKey(before.db, step.params[i].value)}

\* the parameters before i resolve, the store not failing
ResolvesUpTo(i) == \A j \in 1..(i - 1) : ErrorsOf(j) \subseteq {{ErrStore}}

\* C15: for a KeyEd25519 parameter with no stored key that resolution comes
\* to (the store not failing): under an endpoint other than Key the step fails
\* with ErrNamedKeyNotFound and is not dispatched; under the Key endpoint the
\* parameter resolves, a failure of resolution is that of a later parameter,
\* and the value handed to the dispatch (the key name asked of keyCreate, for
\* the first parameter) is the name as given.
C15_MissingKey ==
    (Verified /\ ErrStore \notin err)
    => \A i \in KeysMissing :
         ResolvesUpTo(i) =>
            IF step.endpoint # EndpointKey
            THEN /\ outcome = "resolveErr"
                 /\ err = {ErrNamedKeyNotFound}
                 /\ calls = <<>>
            ELSE /\ outcome = "resolveErr"
                      => \E j \in (i + 1)..Len(step.params) : err \in ErrorsOf(j)
                 /\ Dispatched =>
                      /\ callParams[i] = step.params[i]
                      /\ i = 1 => /\ calls[1].fn = "keyCreate"
                                  /\ calls[1].arg = step.params[1].value

\* a ReadOnly step named a key nobody created, after a step had run
C15_Witness ==
    /\ Returned
    /\ step.endpoint = EndpointReadOnly
    /\ Len(step.params) = 2
    /\ 2 \in KeysMissing
    /\ ResolvesUpTo(2)
    /\ outcome = "resolveErr"
    /\ err = {ErrNamedKeyNotFound}
    /\ before.lastStep = 1

\* text of the form step_ followed by a decimal integer (a sign allowed)
IsStepRefText(v) ==
    LET cut == CutPrefix(v, StepPrefix)
        digits == IF cut.after # <<>> /\ Head(cut.after) \in {43, 45}
                  THEN Tail(cut.after) ELSE cut.after
    IN /\ cut.found
       /\ digits # <<>>
       /\ \A k \in 1..Len(digits) : IsDigit(digits[k])

\* C16: a first parameter of type String or ID whose value is not step_ and a
\* decimal integer is an identifier or a path: an identifier, or the path of
\* a file that exists, is handed on unchanged (resolution then fails only for
\* a later parameter); any other value fails with "this path does not exists".
C16_NonRefIsIdOrPath ==
    (/\ Verified
     /\ step.params[1].type \in {String, ID}
     /\ ~IsStepRefText(step.params[1].value))
    => LET v == step.params[1].value IN
       IF ToID(v).ok \/ v \in Files
       THEN /\ outcome = "resolveErr"
                 => \E j \in 2..Len(step.params) : err \in ErrorsOf(j)
            /\ Dispatched => callParams[1] = step.params[1]
       ELSE /\ outcome = "resolveErr"
            /\ err = {ErrPathNotExists}

\* C17 as stated: every Response Run returns carries the counter the
\* invocation began with, those returned with an error included.
C17_Original ==
    Returned => resp.index = before.lastStep

\* C17, amended: a Response returned without an error carries the counter the
\* invocation began with; the Response returned with an error (of Init, Verify
\* or createCallParams) is the empty Response of index 0.
C17_ResponseIndex ==
    Returned =>
        IF err = NoError
        THEN resp.index = before.lastStep
        ELSE resp = NewResponse(0)

\* a resolution error returned after two steps had run, and with index 0
C17_Witness ==
    /\ Returned
    /\ outcome = "resolveErr"
    /\ err # NoError
    /\ before.lastStep = 2
    /\ resp.index = 0

\* C18: from the empty ledger and counter 0, every index the ledger holds is
\* below the counter, and no step makes the counter smaller.
C18_LedgerBelowCounter ==
    /\ [](\A n \in DOMAIN programIDStrMap : n < lastStep)
    /\ [][lastStep' >= lastStep]_vars

\* the ledger holds the indexes 1 and 2 once the counter is 3
C18_Witness ==
    /\ pc = "idle"
    /\ lastStep = 3
    /\ DOMAIN programIDStrMap = {1, 2}

\* C19: an Execute call or ReadOnly step whose interpreter call returned no
\* payload and no error ends as a Response and the counter advances.
C19_ZeroPayloadsRespond ==
    (/\ Dispatched
     /\ calls # <<>>
     /\ calls[1].fn = "programExecute"
     /\ calls[1].err = NoError
     /\ calls[1].results = 0)
    => /\ Returned
       /\ outcome = "done"
       /\ lastStep = before.lastStep + 1

\* C20: a Key step whose first parameter is of type KeySecp256k1 passes
\* Verify and fails in createCallParams with ErrInvalidParamType: keyCreate
\* is not called, and the ledger and the counter stay as they were.
C20_Secp256k1NotDispatched ==
    (LoadedWithParams /\ step.endpoint = EndpointKey
        /\ step.params[1].type = KeySecp256k1)
    => /\ Verified
       /\ Returned
       /\ outcome = "resolveErr"
       /\ err = {ErrInvalidParamType}
       /\ calls = <<>>
       /\ programIDStrMap = before.programIDStrMap
       /\ lastStep = before.lastStep
       /\ db = before.db

\* a secp256k1 Key step failed after a key and a program had been created
C20_Witness ==
    /\ Returned
    /\ LoadedWithParams
    /\ step.endpoint = EndpointKey
    /\ step.params[1].type = KeySecp256k1
    /\ outcome = "resolveErr"
    /\ err = {ErrInvalidParamType}
    /\ before.lastStep = 2
    /\ before.programIDStrMap # <<>>
    /\ HasKey(before.db, NameA)
    /\ Snapshot = before

====
